---- MODULE Spec2Model ----
(***************************************************************************)
(* Model of the verification server's authorization middlewares            *)
(* (package middleware: RequireAuth, RequireRealmAdmin, RequireAdmin) and  *)
(* of the code issuance handler (package issueapi: IssueAPI.ServeHTTP).    *)
(*                                                                         *)
(* The specifications share the variables:                                 *)
(*   SpecAuth       concurrent RequireAuth requests against the user store *)
(*   SpecGuard      RequireRealmAdmin / RequireAdmin chains over a context *)
(*   SpecIssue      one issuance request, with every input                 *)
(*   SpecIssueFair  the same, with the request's steps scheduled fairly    *)
(*   SpecIssueRace  concurrent issuance requests against the code store    *)
(***************************************************************************)
EXTENDS Integers, Sequences, FiniteSets, TLC

VARIABLES
  now,    \* the wall clock
  users,  \* the store's User records, by email
  req,    \* the RequireAuth requests in flight
  gctx,   \* the request context handed to a middleware chain
  gjson,  \* whether that request is a JSON request
  g,      \* the middleware chains run over that context
  tz,     \* the server's local time zone, as an offset from UTC
  codes,  \* the store's verification-code records
  ireq    \* the issuance requests in flight

vars == <<now, users, req, gctx, gjson, g, tz, codes, ireq>>

authVars == <<now, users, req>>
guardVars == <<gctx, gjson, g>>
issueVars == <<tz, codes, ireq>>

(***************************************************************************)
(* Bounds.                                                                 *)
(***************************************************************************)
\* The wall clock runs over 0..MaxTime.
MaxTime == 3

(***************************************************************************)
(* Program parameters and data.                                            *)
(***************************************************************************)
\* RequireAuthHandler.ttl: the revocation-check time-to-live.
TTL == 1

\* The concurrent RequireAuth requests (one goroutine each).
Reqs == {"q1", "q2"}

\* Email addresses an identity token may carry; "ghost" has no User record.
Emails == {"alice", "bob", "ghost"}

Realms == {"r1", "r2"}

\* A nil *database.User.
NilUser ==
  [exists |-> FALSE, email |-> "", disabled |-> FALSE, admin |-> FALSE,
   realms |-> {}, lrc |-> 0, ver |-> 0]

\* A stored User: disabled flag, system admin flag, the realms it may
\* administer, LastRevokeCheck (lrc) and the row version the store's
\* compare-and-swap update compares.
MkUser(e, dis, adm, rs, t) ==
  [exists |-> TRUE, email |-> e, disabled |-> dis, admin |-> adm,
   realms |-> rs, lrc |-> t, ver |-> 0]

\* Errors returned by the closure of RequireAuthHandler.Handle.
NoErr == "nil"
ErrNoCookie == "failed to get cookie"
ErrBadCookie == "failed to verify session cookie"
ErrNoEmail == "session is missing email"
ErrEmailNotString == "email is not a string"
ErrUserNotFound == "user not found"
ErrUserDisabled == "user disabled"
ErrRevoked == "failed to verify session is not revoked"
ErrSaveFailed == "failed to update revoke check time"

\* Responses written by the middlewares.
NoResp == [kind |-> "none", status |-> 0, location |-> "", flash |-> ""]
JSON401 == [kind |-> "json", status |-> 401, location |-> "", flash |-> ""]
RedirectSignout ==
  [kind |-> "redirect", status |-> 302, location |-> "/signout",
   flash |-> "Unauthorized"]
RedirectRealm ==
  [kind |-> "redirect", status |-> 302, location |-> "/realm",
   flash |-> "You are not authorized to admin that realm."]
\* Whatever the downstream handler writes.
NextResp == [kind |-> "next", status |-> 200, location |-> "", flash |-> ""]

(***************************************************************************)
(* RequireAuth: the pure steps of the closure.                             *)
(***************************************************************************)
\* r.Cookie("session"), VerifySessionCookie, token.Claims["email"] and the
\* string conversion: the first failing step decides the error.
CookieClaimsErr(cookie, claim) ==
  IF cookie = "none" THEN ErrNoCookie
  ELSE IF cookie # "good" THEN ErrBadCookie
  ELSE IF claim = "absent" THEN ErrNoEmail
  ELSE IF claim = "nonstring" THEN ErrEmailNotString
  ELSE NoErr

\* db.FindUser(email): the stored User, or nil when there is none or the
\* lookup failed.
FindUser(store, email, dbErr) ==
  IF dbErr \/ ~store[email].exists THEN NilUser ELSE store[email]

\* if err != nil || user == nil -> ErrUserNotFound; if user.Disabled ->
\* ErrUserDisabled.
\* Variant: the disabled test left out.
LookupErr_NoDisabledCheck(u) ==
  IF ~u.exists THEN ErrUserNotFound ELSE NoErr

LookupErr(u) ==
  IF ~u.exists THEN ErrUserNotFound
  ELSE IF u.disabled THEN ErrUserDisabled
  ELSE NoErr

\* time.Now().After(user.LastRevokeCheck.Add(rah.ttl))
\* Variant: the check is made on every request, the TTL ignored.
RevokeCheckDue_Always(t, lrc) == TRUE

RevokeCheckDue(t, lrc) == t > lrc + TTL

\* What follows VerifySessionCookieAndCheckRevoked: an error returns at once.
AfterRevokeCheck(ok) ==
  IF ok THEN [pc |-> "stamp", err |-> NoErr]
  ELSE [pc |-> "respond", err |-> ErrRevoked]

\* db.SaveUser(user): an update that takes effect only if the stored row is
\* the one that was read (compare-and-swap on the row version); it may also
\* fail outright.  A failed save leaves the store as it was.
\* Variant: the update overwrites the row whatever it holds.
SaveUser_BlindWrite(store, u, dbErr) ==
  IF dbErr THEN [ok |-> FALSE, store |-> store]
  ELSE [ok |-> TRUE,
        store |-> [store EXCEPT ![u.email] = [u EXCEPT !.ver = @ + 1]]]

SaveUser(store, u, dbErr) ==
  IF dbErr \/ store[u.email].ver # u.ver
  THEN [ok |-> FALSE, store |-> store]
  ELSE [ok |-> TRUE,
        store |-> [store EXCEPT ![u.email] = [u EXCEPT !.ver = @ + 1]]]

\* What follows db.SaveUser.
\* Variant: a failed save is ignored.
AfterSave_BestEffort(ok) == NoErr

AfterSave(ok) == IF ok THEN NoErr ELSE ErrSaveFailed

\* The unauthorized response: WriteJSON(401) for JSON requests, otherwise a
\* flash message and a redirect to /signout.
Unauthorized(json) == IF json THEN JSON401 ELSE RedirectSignout

\* if err != nil { unauthorized } else { next.ServeHTTP(w, r) }
\* Variant: next is called after the unauthorized response too.
AuthOutcome_NoElse(err, json) ==
  [forwarded |-> TRUE,
   resp |-> IF err # NoErr THEN Unauthorized(json) ELSE NextResp]

AuthOutcome(err, json) ==
  IF err # NoErr
  THEN [forwarded |-> FALSE, resp |-> Unauthorized(json)]
  ELSE [forwarded |-> TRUE, resp |-> NextResp]

(***************************************************************************)
(* RequireRealmAdmin and RequireAdmin over a request context.              *)
(***************************************************************************)
\* A nil *database.Realm, and a realm selected into the context.
NilRealm == [exists |-> FALSE, id |-> ""]
MkRealm(id) == [exists |-> TRUE, id |-> id]

\* The request context: controller.UserFromContext / RealmFromContext.
NilCtx == [user |-> NilUser, realm |-> NilRealm]

ErrMissingUserInSession == "missing user in session"
ErrMissingRealmInSession == "missing realm in session"
ErrNotRealmAdmin == "not realm admin"
ErrMissingUser == "missing user"
ErrNotAdmin == "user is not an admin"

\* user.CanAdminRealm(realmID)
CanAdminRealm(u, id) == id \in u.realms

\* The closure of RequireRealmAdminHandler.Handle.
\* Variant: CanAdminRealm is not asked.
RealmAdminErr_NoCapabilityCheck(ctx) ==
  IF ~ctx.user.exists THEN ErrMissingUserInSession
  ELSE IF ~ctx.realm.exists THEN ErrMissingRealmInSession
  ELSE NoErr

RealmAdminErr(ctx) ==
  IF ~ctx.user.exists THEN ErrMissingUserInSession
  ELSE IF ~ctx.realm.exists THEN ErrMissingRealmInSession
  ELSE IF ~CanAdminRealm(ctx.user, ctx.realm.id) THEN ErrNotRealmAdmin
  ELSE NoErr

\* The response to a rejected request: errors.Is(err, ErrNotRealmAdmin)
\* redirects to /realm, anything else to /signout.
\* Variant: every rejection gets the generic response.
RealmAdminReject_Generic(err) == RedirectSignout

RealmAdminReject(err) ==
  IF err = ErrNotRealmAdmin THEN RedirectRealm ELSE RedirectSignout

\* next.ServeHTTP(w, r): the request, and so its context, is passed on as
\* it came.
\* Variant: the realm is taken off the context that is passed on.
RealmAdminPass_DropRealm(ctx) == [ctx EXCEPT !.realm = NilRealm]

RealmAdminPass(ctx) == ctx

\* The closure of RequireAdminHandler.Handle.
\* Variant: a user who administers some realm passes.
AdminErr_RealmAdminCounts(ctx) ==
  IF ~ctx.user.exists THEN ErrMissingUser
  ELSE IF ~ctx.user.admin /\ ctx.user.realms = {} THEN ErrNotAdmin
  ELSE NoErr

AdminErr(ctx) ==
  IF ~ctx.user.exists THEN ErrMissingUser
  ELSE IF ~ctx.user.admin THEN ErrNotAdmin
  ELSE NoErr

\* The middleware chains a route may be wrapped in; the downstream handler
\* follows the last middleware.
Pipes == {"once", "twice", "admin"}

Chain(p) ==
  IF p = "once" THEN <<"RequireRealmAdmin">>
  ELSE IF p = "twice" THEN <<"RequireRealmAdmin", "RequireRealmAdmin">>
  ELSE <<"RequireAdmin">>

\* A chain before its first middleware runs: pos is the middleware to run
\* next, ctx the context of the request as it is passed along.
IdlePipe(ctx) ==
  [pos |-> 1, done |-> FALSE, ctx |-> ctx, err |-> NoErr, resp |-> NoResp,
   nextCalls |-> 0, logged |-> 0]

AtMiddleware(p, name) ==
  /\ ~g[p].done
  /\ g[p].pos <= Len(Chain(p))
  /\ Chain(p)[g[p].pos] = name

\* RequireRealmAdminHandler.Handle's handler function.
RequireRealmAdmin(p) ==
  /\ AtMiddleware(p, "RequireRealmAdmin")
  /\ LET e == RealmAdminErr(g[p].ctx) IN
     g' = [g EXCEPT ![p] =
             IF e # NoErr
             THEN [@ EXCEPT !.err = e, !.resp = RealmAdminReject(e),
                            !.logged = @ + 1, !.done = TRUE]
             ELSE [@ EXCEPT !.pos = @ + 1, !.ctx = RealmAdminPass(@)]]
  /\ UNCHANGED <<authVars, gctx, gjson, issueVars>>

\* RequireAdminHandler.Handle's handler function.
RequireAdmin(p) ==
  /\ AtMiddleware(p, "RequireAdmin")
  /\ LET e == AdminErr(g[p].ctx) IN
     g' = [g EXCEPT ![p] =
             IF e # NoErr
             THEN [@ EXCEPT !.err = e, !.resp = Unauthorized(gjson),
                            !.logged = @ + 1, !.done = TRUE]
             ELSE [@ EXCEPT !.pos = @ + 1]]
  /\ UNCHANGED <<authVars, gctx, gjson, issueVars>>

\* The downstream handler, reached when every middleware passed.
Downstream(p) ==
  /\ ~g[p].done
  /\ g[p].pos = Len(Chain(p)) + 1
  /\ g' = [g EXCEPT ![p] =
             [@ EXCEPT !.nextCalls = @ + 1, !.resp = NextResp,
                       !.done = TRUE]]
  /\ UNCHANGED <<authVars, gctx, gjson, issueVars>>


(***************************************************************************)
(* RequireAuth: one request, step by step.  A step is one access to the    *)
(* shared store, the clock or the identity provider.                       *)
(***************************************************************************)
IdleReq ==
  [pc |-> "idle", cookie |-> "none", claim |-> "absent", json |-> FALSE,
   user |-> NilUser, lrcRead |-> 0, nowAtCheck |-> -1, calls |-> 0,
   revokeOK |-> FALSE, saveTried |-> FALSE, saveOK |-> FALSE,
   err |-> NoErr, resp |-> NoResp, forwarded |-> FALSE, ctxUser |-> NilUser]

\* The request arrives; cookie, token verification and claims are looked at.
\* Only a verified cookie yields a token, so only then is there a claim.
AuthStart(r) ==
  /\ req[r].pc = "idle"
  /\ \E cookie \in {"none", "bad", "good"} :
     \E claim \in {"absent", "nonstring"} \cup Emails :
       /\ cookie # "good" => claim = "absent"
       /\ LET e == CookieClaimsErr(cookie, claim) IN
          req' = [req EXCEPT ![r] =
                    [@ EXCEPT !.cookie = cookie, !.claim = claim, !.err = e,
                              !.pc = IF e = NoErr THEN "find" ELSE "respond"]]
  /\ UNCHANGED <<now, users, guardVars, issueVars>>

\* user, err := rah.db.FindUser(email), and the disabled check.
AuthFindUser(r) ==
  /\ req[r].pc = "find"
  /\ \E dbErr \in BOOLEAN :
       LET u == FindUser(users, req[r].claim, dbErr)
           e == LookupErr(u)
       IN req' = [req EXCEPT ![r] =
                    [@ EXCEPT !.user = u, !.lrcRead = u.lrc, !.err = e,
                              !.pc = IF e = NoErr THEN "ttl" ELSE "respond"]]
  /\ UNCHANGED <<now, users, guardVars, issueVars>>

\* The first time.Now() and the TTL comparison.
AuthCheckTTL(r) ==
  /\ req[r].pc = "ttl"
  /\ req' = [req EXCEPT ![r] =
               [@ EXCEPT !.nowAtCheck = now,
                         !.pc = IF RevokeCheckDue(now, req[r].user.lrc)
                                THEN "revoke" ELSE "respond"]]
  /\ UNCHANGED <<now, users, guardVars, issueVars>>

\* rah.client.VerifySessionCookieAndCheckRevoked: the provider's answer is
\* an input.
AuthRevokeCheck(r) ==
  /\ req[r].pc = "revoke"
  /\ \E ok \in BOOLEAN :
       LET a == AfterRevokeCheck(ok) IN
       req' = [req EXCEPT ![r] =
                 [@ EXCEPT !.calls = @ + 1, !.revokeOK = ok,
                           !.err = a.err, !.pc = a.pc]]
  /\ UNCHANGED <<now, users, guardVars, issueVars>>

\* user.LastRevokeCheck = time.Now(): the second reading of the clock.
AuthStamp(r) ==
  /\ req[r].pc = "stamp"
  /\ req' = [req EXCEPT ![r] =
               [@ EXCEPT !.user = [@ EXCEPT !.lrc = now], !.pc = "save"]]
  /\ UNCHANGED <<now, users, guardVars, issueVars>>

\* rah.db.SaveUser(user)
AuthSave(r) ==
  /\ req[r].pc = "save"
  /\ \E dbErr \in BOOLEAN :
       LET s == SaveUser(users, req[r].user, dbErr) IN
       /\ users' = s.store
       /\ req' = [req EXCEPT ![r] =
                    [@ EXCEPT !.saveTried = TRUE, !.saveOK = s.ok,
                              !.err = AfterSave(s.ok), !.pc = "respond"]]
  /\ UNCHANGED <<now, guardVars, issueVars>>

\* The closure has returned: on success the user is on the request context
\* (controller.WithUser) and next is called; otherwise the answer is
\* unauthorized.  IsJSONContentType(r) is read here.
AuthRespond(r) ==
  /\ req[r].pc = "respond"
  /\ \E json \in BOOLEAN :
       LET o == AuthOutcome(req[r].err, json) IN
       req' = [req EXCEPT ![r] =
                 [@ EXCEPT !.json = json, !.resp = o.resp,
                           !.forwarded = o.forwarded,
                           !.ctxUser = IF o.forwarded
                                       THEN req[r].user
                                       ELSE NilUser,
                           !.pc = "done"]]
  /\ UNCHANGED <<now, users, guardVars, issueVars>>

\* Time passes.
Tick ==
  /\ now < MaxTime
  /\ now' = now + 1
  /\ UNCHANGED <<users, req, guardVars, issueVars>>

(***************************************************************************)
(* IssueAPI.ServeHTTP: configuration, inputs and the code store.           *)
(***************************************************************************)
\* The concurrent issuance requests (one goroutine each).
IReqs == {"i1", "i2"}

\* The codes of the configured length (GetVerficationCodeDigits): a small
\* code space, so that two requests do draw the same code.
Codes == {"11", "22"}

\* config.GetVerificationCodeDuration(), in clock ticks.
CodeDuration == 2

\* config.GetAllowedSymptomAge(), in days.
AllowedSymptomAgeDays == 1

\* config.GetColissionRetryCount().
RetryCount == 2

\* 24 * time.Hour, in clock ticks.
DayLen == 2

\* The offsets from UTC the server's local zone may have, in clock ticks.
TimeZones == {-1, 0, 1}

\* api.TestTypeConfirmed, api.TestTypeLikely, api.TestTypeNegative.
ValidTestTypes == {"confirmed", "likely", "negative"}

\* The testType strings a request may carry.
TestTypeInputs == {"", "confirmed", "LIKELY", "Bogus"}

\* strings.ToLower, on the strings above.
ToLower(str) ==
  IF str = "LIKELY" THEN "likely"
  ELSE IF str = "Bogus" THEN "bogus"
  ELSE str

\* The symptomDate strings a request may carry: empty, not a date, or the
\* calendar date of day number d.
DateEmpty == [kind |-> "empty", day |-> 0]
DateUnparsable == [kind |-> "unparsable", day |-> 0]
DateOf(d) == [kind |-> "date", day |-> d]
DateInputs == {DateEmpty, DateUnparsable} \cup {DateOf(d) : d \in -1..2}

\* A nil principal / realm id.
None == ""

\* The realm of the one AuthorizedApp, and the realm a User selects.
AppRealmID == "r1"
UserRealmID == "r2"

\* An HTTP response written with controller.WriteJSON: an error body
\* (api.Error) or the IssueCodeResponse.
ErrorResp(status, msg) ==
  [status |-> status, kind |-> "error", msg |-> msg, lo |-> 0, hi |-> 0]
DateErrorResp(status, msg, lo, hi) ==
  [status |-> status, kind |-> "error", msg |-> msg, lo |-> lo, hi |-> hi]
CodeResp(code, expiresAt) ==
  [status |-> 200, kind |-> "code", msg |-> code, lo |-> 0, hi |-> expiresAt]

\* What a request carries and what its collaborators answer it.
IssueInputs ==
  [bindErr : BOOLEAN, ctxApp : {None, "app1"}, ctxUser : {None, "alice"},
   ctxRealm : {None, UserRealmID}, appRealmErr : BOOLEAN,
   phone : {"", "555"}, sms : {"err", "none", "ok"},
   testType : TestTypeInputs]

\* getAuthorizationFromContext: the AuthorizedApp if there is one, else the
\* User, else an error.
\* Variant: with both attached, both are returned.
GetAuthorizationFromContext_Both(in) ==
  IF in.ctxApp # None
  THEN [err |-> FALSE, app |-> in.ctxApp, user |-> in.ctxUser]
  ELSE IF in.ctxUser # None
       THEN [err |-> FALSE, app |-> None, user |-> in.ctxUser]
  ELSE [err |-> TRUE, app |-> None, user |-> None]

GetAuthorizationFromContext(in) ==
  IF in.ctxApp # None THEN [err |-> FALSE, app |-> in.ctxApp, user |-> None]
  ELSE IF in.ctxUser # None
       THEN [err |-> FALSE, app |-> None, user |-> in.ctxUser]
  ELSE [err |-> TRUE, app |-> None, user |-> None]

\* The result of validating a request.  stage names the step that ended the
\* validation ("ok": none did); resps are the responses written so far.
Validated(stage, resps, auth, realmID, provider, testType) ==
  [stage |-> stage, resps |-> resps, app |-> auth.app, user |-> auth.user,
   realmID |-> realmID, provider |-> provider, testType |-> testType]

\* The test type check: strings.ToLower, then the validTestType lookup.
\* Variant: the 422 is written and the handler goes on.
CheckTestType_NoReturn(in, resps, auth, realmID, provider) ==
  LET tt == ToLower(in.testType) IN
  IF tt \notin ValidTestTypes
  THEN Validated("ok", Append(resps, ErrorResp(422, "invalid test type")),
                 auth, realmID, provider, tt)
  ELSE Validated("ok", resps, auth, realmID, provider, tt)

CheckTestType(in, resps, auth, realmID, provider) ==
  LET tt == ToLower(in.testType) IN
  IF tt \notin ValidTestTypes
  THEN Validated("testtype",
                 Append(resps, ErrorResp(422, "invalid test type")),
                 auth, realmID, provider, tt)
  ELSE Validated("ok", resps, auth, realmID, provider, tt)

\* The SMS configuration check.  With a phone and no provider configured
\* the 422 is written and the handler goes on to the test type check.
CheckSMS(in, auth, realmID) ==
  IF in.phone = "" THEN CheckTestType(in, <<>>, auth, realmID, FALSE)
  ELSE IF in.sms = "err"
  THEN Validated("sms", <<ErrorResp(500, "failed to get sms provider")>>,
                 auth, realmID, FALSE, "")
  ELSE IF in.sms = "none"
  THEN CheckTestType(in,
         <<ErrorResp(422,
             "phone provided, but no SMS provider is configured")>>,
         auth, realmID, FALSE)
  ELSE CheckTestType(in, <<>>, auth, realmID, TRUE)

\* ServeHTTP up to the test type check: BindJSON, the principal, the realm,
\* the SMS provider, the test type.
PreValidate(in) ==
  LET auth == GetAuthorizationFromContext(in)
      none == [err |-> FALSE, app |-> None, user |-> None]
  IN
  IF in.bindErr
  THEN Validated("bind", <<ErrorResp(200, "invalid request")>>,
                 none, None, FALSE, "")
  ELSE IF auth.err
  THEN Validated("auth",
         <<ErrorResp(422,
             "invalid request: unable to identify authorized requestor")>>,
         none, None, FALSE, "")
  ELSE IF auth.app # None /\ in.appRealmErr
  THEN Validated("realm", <<ErrorResp(401, "Unauthorized")>>,
                 auth, None, FALSE, "")
  ELSE IF auth.app = None /\ in.ctxRealm = None
  THEN Validated("realm", <<ErrorResp(422, "no realm selected")>>,
                 auth, None, FALSE, "")
  ELSE CheckSMS(in, auth,
                IF auth.app # None THEN AppRealmID ELSE in.ctxRealm)

\* An input the handler does not read on its path has its zero value.
Canonical(in, stage) ==
  /\ stage = "bind" => in.ctxApp = None /\ in.ctxUser = None
  /\ (stage \in {"bind", "auth"} \/ in.ctxApp = None) => ~in.appRealmErr
  /\ (stage \in {"bind", "auth"} \/ in.ctxApp # None) => in.ctxRealm = None
  /\ stage \in {"bind", "auth", "realm"} => in.phone = ""
  /\ in.phone = "" => in.sms = "none"
  /\ stage \in {"bind", "auth", "realm", "sms"} => in.testType = ""

CanonicalInputs == {in \in IssueInputs : Canonical(in, PreValidate(in).stage)}

\* The requests of the concurrency specification: valid requests of the
\* AuthorizedApp, without or with a recipient the realm can reach.
RaceInputs ==
  {in \in CanonicalInputs :
     /\ PreValidate(in).stage = "ok"
     /\ in.ctxApp # None /\ in.ctxUser = None
     /\ in.testType = "confirmed"
     /\ in.phone # "" => in.sms = "ok"}

\* Records left in the store by earlier requests.
EarlierRecord(code) ==
  [id |-> "e" \o code, code |-> code, expiresAt |-> CodeDuration,
   testType |-> "confirmed", symptomDate |-> DateEmpty,
   issuingUser |-> None, issuingApp |-> "app1", realmID |-> AppRealmID]

\* time.Time.Truncate(24 * time.Hour): down to a multiple of a day since the
\* zero time, which is a UTC midnight.
TruncateDay(t) == (t \div DayLen) * DayLen

\* t.Format("2006-01-02") of a local time: the day number of its local date.
FormatDate(t, z) == (t + z) \div DayLen

\* time.Parse("2006-01-02", s): midnight UTC of that date.
ParseDate(d) == d * DayLen

\* The symptom date check at time t in zone z: maxDate := time.Now().Local(),
\* minDate := maxDate.Add(-age).Truncate(24h), and the supplied date is
\* refused if minDate.After(parsed) || parsed.After(maxDate).
CheckSymptomDate(date, t, z) ==
  LET maxDate == t
      minDate == TruncateDay(maxDate - AllowedSymptomAgeDays * DayLen)
      parsed == ParseDate(date.day)
  IN
  IF date.kind = "empty" THEN [ok |-> TRUE, resp |-> <<>>]
  ELSE IF date.kind = "unparsable"
  THEN [ok |-> FALSE,
        resp |-> <<ErrorResp(422, "invalid symptom onset date")>>]
  ELSE IF minDate > parsed \/ parsed > maxDate
  THEN [ok |-> FALSE,
        resp |-> <<DateErrorResp(422, "Invalid symptom onset date",
                                 FormatDate(minDate, z),
                                 FormatDate(maxDate, z))>>]
  ELSE [ok |-> TRUE, resp |-> <<>>]

\* A verification-code record of the store; id tells the records of
\* different requests apart.
CodeRecord(i, r, code) ==
  [id |-> i, code |-> code, expiresAt |-> r.expiresAt,
   testType |-> r.testType, symptomDate |-> r.in.symptomDate,
   issuingUser |-> r.user, issuingApp |-> r.app, realmID |-> r.realmID]

\* A record is live until its expiry time.
Live(rec, t) == rec.expiresAt > t

\* The store's insert of a code record: refused with a conflict when a live
\* record has the same code; it may also fail outright.
\* Variant: the insert does not look for a live record with the code.
InsertCodeIfAbsent_NoConflictCheck(store, rec, t, dbErr) ==
  IF dbErr THEN [result |-> "error", store |-> store]
  ELSE [result |-> "ok", store |-> store \cup {rec}]

InsertCodeIfAbsent(store, rec, t, dbErr) ==
  IF dbErr THEN [result |-> "error", store |-> store]
  ELSE IF \E other \in store : Live(other, t) /\ other.code = rec.code
  THEN [result |-> "conflict", store |-> store]
  ELSE [result |-> "ok", store |-> store \cup {rec}]

\* db.DeleteVerificationCode(code): the records with that code are removed,
\* unless the delete fails.
DeleteVerificationCode(store, code, dbErr) ==
  IF dbErr THEN [ok |-> FALSE, store |-> store]
  ELSE [ok |-> TRUE, store |-> {rec \in store : rec.code # code}]

\* otp.Request.Issue's retry loop: after a conflict another code is
\* generated while the conflicts so far are within the retry budget.
MayRetry(conflicts, retryCount) == conflicts <= retryCount

(***************************************************************************)
(* IssueAPI.ServeHTTP: one request, step by step.                          *)
(***************************************************************************)
IdleIssue ==
  [pc |-> "idle",
   in |-> [bindErr |-> FALSE, ctxApp |-> None, ctxUser |-> None,
           ctxRealm |-> None, appRealmErr |-> FALSE, phone |-> "",
           sms |-> "none", testType |-> "", symptomDate |-> DateEmpty],
   stage |-> "idle", resps |-> <<>>, app |-> None, user |-> None,
   realmID |-> None, provider |-> FALSE, testType |-> "", expiresAt |-> 0,
   code |-> "", attempts |-> 0, conflicts |-> 0, persisted |-> FALSE,
   sendTried |-> FALSE, sendOK |-> FALSE,
   deleteTried |-> FALSE, deleteOK |-> FALSE,
   at |-> 0, issued |-> "", sends |-> 0]

\* The handler up to the call of codeRequest.Issue: the request is bound and
\* validated; expiryTime := time.Now().UTC().Add(expiration).
IssueValidate(i, inputs, dates) ==
  /\ ireq[i].pc = "idle"
  /\ \E in \in inputs, date \in dates :
       LET v == PreValidate(in)
           d == CheckSymptomDate(date, now, tz)
           full == [bindErr |-> in.bindErr, ctxApp |-> in.ctxApp,
                    ctxUser |-> in.ctxUser, ctxRealm |-> in.ctxRealm,
                    appRealmErr |-> in.appRealmErr, phone |-> in.phone,
                    sms |-> in.sms, testType |-> in.testType,
                    symptomDate |-> date]
       IN
       /\ v.stage # "ok" => date = DateEmpty
       /\ ireq' = [ireq EXCEPT ![i] =
            [@ EXCEPT !.in = full, !.at = now,
                      !.stage = IF v.stage # "ok" THEN v.stage
                                ELSE IF ~d.ok THEN "date" ELSE "ok",
                      !.resps = v.resps \o d.resp,
                      !.app = v.app, !.user = v.user,
                      !.realmID = v.realmID, !.provider = v.provider,
                      !.testType = v.testType,
                      !.expiresAt = IF v.stage = "ok" /\ d.ok
                                    THEN now + CodeDuration ELSE 0,
                      !.pc = IF v.stage = "ok" /\ d.ok
                             THEN "generate" ELSE "done"]]
  /\ UNCHANGED <<authVars, guardVars, tz, codes>>

\* codeRequest.Issue: a code is generated.
IssueGenerate(i) ==
  /\ ireq[i].pc = "generate"
  /\ \E code \in Codes :
       ireq' = [ireq EXCEPT ![i] =
                  [@ EXCEPT !.code = code, !.attempts = @ + 1,
                            !.pc = "persist"]]
  /\ UNCHANGED <<authVars, guardVars, tz, codes>>

\* The success response: the code and its expiry.
Reply(r) == Append(r.resps, CodeResp(r.code, r.expiresAt))

\* The 500 after a failed Issue.
ReplyIssueFailed(r) ==
  Append(r.resps,
         ErrorResp(500, "error generating verification, wait a moment and try again"))

\* codeRequest.Issue: the generated code is persisted.  On success the
\* handler goes on to the SMS, or answers at once when there is none to
\* send; on a conflict Issue generates again or gives up.
IssuePersist(i) ==
  /\ ireq[i].pc = "persist"
  /\ \E dbErr \in BOOLEAN :
       LET r == ireq[i]
           ins == InsertCodeIfAbsent(codes, CodeRecord(i, r, r.code), now,
                                     dbErr)
           sms == r.in.phone # "" /\ r.provider
       IN
       /\ codes' = ins.store
       /\ ireq' = [ireq EXCEPT ![i] =
            IF ins.result = "ok"
            THEN IF sms
                 THEN [@ EXCEPT !.persisted = TRUE, !.issued = r.code,
                                !.pc = "send"]
                 ELSE [@ EXCEPT !.persisted = TRUE, !.issued = r.code,
                                !.resps = Reply(r), !.pc = "done"]
            ELSE IF ins.result = "conflict"
                    /\ MayRetry(r.conflicts + 1, RetryCount)
            THEN [@ EXCEPT !.conflicts = @ + 1, !.pc = "generate"]
            ELSE [@ EXCEPT !.conflicts =
                             IF ins.result = "conflict" THEN @ + 1 ELSE @,
                           !.code = "", !.resps = ReplyIssueFailed(r),
                           !.pc = "done"]]
  /\ UNCHANGED <<authVars, guardVars, tz>>

\* Where the handler goes after smsProvider.SendSMS: to the success
\* response, or into the error branch that deletes the code.
\* Variant: a failed send is tried again.
AfterSendSMS_Resend(ok) == IF ok THEN "done" ELSE "send"

AfterSendSMS(ok) == IF ok THEN "done" ELSE "delete"

\* smsProvider.SendSMS: on success the handler answers with the code.
IssueSendSMS(i) ==
  /\ ireq[i].pc = "send"
  /\ \E ok \in BOOLEAN :
       ireq' = [ireq EXCEPT ![i] =
                  IF ok
                  THEN [@ EXCEPT !.sendTried = TRUE, !.sendOK = TRUE,
                                 !.sends = @ + 1,
                                 !.resps = Reply(ireq[i]),
                                 !.pc = AfterSendSMS(ok)]
                  ELSE [@ EXCEPT !.sendTried = TRUE, !.sends = @ + 1,
                                 !.pc = AfterSendSMS(ok)]]
  /\ UNCHANGED <<authVars, guardVars, tz, codes>>

\* The compensating action of the error branch:
\* ic.db.DeleteVerificationCode(code).
\* Variant: the error branch does not delete.
RollbackDelete_Skipped(store, code, dbErr) == [ok |-> TRUE, store |-> store]

RollbackDelete(store, code, dbErr) ==
  DeleteVerificationCode(store, code, dbErr)

\* The response of the error branch: the delete's own failure is logged and
\* falls through to the send error.
\* Variant: a failed delete is what the caller is told.
DispatchFailureResp_DeleteMasks(deleteOK) ==
  IF deleteOK THEN ErrorResp(500, "failed to send sms")
  ELSE ErrorResp(500, "failed to delete verification code")

DispatchFailureResp(deleteOK) == ErrorResp(500, "failed to send sms")

\* After a failed SendSMS: the code is deleted and the 500 is written.
IssueDeleteCode(i) ==
  /\ ireq[i].pc = "delete"
  /\ \E dbErr \in BOOLEAN :
       LET del == RollbackDelete(codes, ireq[i].code, dbErr) IN
       /\ codes' = del.store
       /\ ireq' = [ireq EXCEPT ![i] =
            [@ EXCEPT !.deleteTried = TRUE, !.deleteOK = del.ok,
                      !.resps = Append(@, DispatchFailureResp(del.ok)),
                      !.pc = "done"]]
  /\ UNCHANGED <<authVars, guardVars, tz>>

\* The user store before any request: alice and bob exist, each enabled or
\* disabled; ghost has no record.
InitUsers ==
  {[e \in Emails |->
      IF e = "alice" THEN MkUser(e, da, TRUE, {"r1"}, 0)
      ELSE IF e = "bob" THEN MkUser(e, db, FALSE, {}, 0)
      ELSE NilUser] : da \in BOOLEAN, db \in BOOLEAN}

InitAuth ==
  /\ now = 0
  /\ users \in InitUsers
  /\ req = [r \in Reqs |-> IdleReq]
  /\ gctx = NilCtx
  /\ gjson = FALSE
  /\ g = [p \in Pipes |-> IdlePipe(NilCtx)]
  /\ tz = 0
  /\ codes = {}
  /\ ireq = [i \in IReqs |-> IdleIssue]

NextAuth ==
  \/ \E r \in Reqs : AuthStart(r)
  \/ \E r \in Reqs : AuthFindUser(r)
  \/ \E r \in Reqs : AuthCheckTTL(r)
  \/ \E r \in Reqs : AuthRevokeCheck(r)
  \/ \E r \in Reqs : AuthStamp(r)
  \/ \E r \in Reqs : AuthSave(r)
  \/ \E r \in Reqs : AuthRespond(r)
  \/ Tick

SpecAuth == InitAuth /\ [][NextAuth]_vars

\* The users a context may hold: any admin flag, any set of realms.
CtxUsers ==
  {NilUser} \cup
  {MkUser("alice", FALSE, adm, rs, 0) : adm \in BOOLEAN, rs \in SUBSET Realms}

CtxRealms == {NilRealm} \cup {MkRealm(id) : id \in Realms}

GuardStore ==
  [e \in Emails |->
     IF e = "alice" THEN MkUser(e, FALSE, TRUE, {"r1"}, 0) ELSE NilUser]

InitGuard ==
  /\ now = 0
  /\ users = GuardStore
  /\ req = [r \in Reqs |-> IdleReq]
  /\ gctx \in [user : CtxUsers, realm : CtxRealms]
  /\ gjson \in BOOLEAN
  /\ g = [p \in Pipes |-> IdlePipe(gctx)]
  /\ tz = 0
  /\ codes = {}
  /\ ireq = [i \in IReqs |-> IdleIssue]

NextGuard ==
  \/ \E p \in Pipes : RequireRealmAdmin(p)
  \/ \E p \in Pipes : RequireAdmin(p)
  \/ \E p \in Pipes : Downstream(p)

SpecGuard == InitGuard /\ [][NextGuard]_vars


InitIssue ==
  /\ now = 0
  /\ users = GuardStore
  /\ req = [r \in Reqs |-> IdleReq]
  /\ gctx = NilCtx
  /\ gjson = FALSE
  /\ g = [p \in Pipes |-> IdlePipe(NilCtx)]
  /\ tz \in TimeZones
  /\ codes \in SUBSET {EarlierRecord(code) : code \in Codes}
  /\ ireq = [i \in IReqs |-> IdleIssue]

\* One request, with every input, against a store that earlier requests
\* have left records in.
NextIssue ==
  \/ IssueValidate("i1", CanonicalInputs, DateInputs)
  \/ IssueGenerate("i1")
  \/ IssuePersist("i1")
  \/ IssueSendSMS("i1")
  \/ IssueDeleteCode("i1")
  \/ Tick

SpecIssue == InitIssue /\ [][NextIssue]_vars

\* The request's goroutine keeps running and every call it makes returns:
\* a step of the request that stays possible is taken.
IssueStep ==
  \/ IssueValidate("i1", CanonicalInputs, DateInputs)
  \/ IssueGenerate("i1")
  \/ IssuePersist("i1")
  \/ IssueSendSMS("i1")
  \/ IssueDeleteCode("i1")

SpecIssueFair == SpecIssue /\ WF_vars(IssueStep)

\* Concurrent requests against an empty store.
InitIssueRace ==
  /\ now = 0
  /\ users = GuardStore
  /\ req = [r \in Reqs |-> IdleReq]
  /\ gctx = NilCtx
  /\ gjson = FALSE
  /\ g = [p \in Pipes |-> IdlePipe(NilCtx)]
  /\ tz = 0
  /\ codes = {}
  /\ ireq = [i \in IReqs |-> IdleIssue]

NextIssueRace ==
  \/ \E i \in IReqs : IssueValidate(i, RaceInputs, {DateEmpty})
  \/ \E i \in IReqs : IssueGenerate(i)
  \/ \E i \in IReqs : IssuePersist(i)
  \/ \E i \in IReqs : IssueSendSMS(i)
  \/ \E i \in IReqs : IssueDeleteCode(i)
  \/ Tick

SpecIssueRace == InitIssueRace /\ [][NextIssueRace]_vars

(***************************************************************************)
(* Claims about RequireAuth, checked under SpecAuth.                       *)
(***************************************************************************)
\* The request has looked its User up and the record it got is disabled.
LookedUpDisabled(r) == req[r].user.exists /\ req[r].user.disabled

\* The request has looked its User up: the record exists and is enabled.
LookedUpEnabled(r) == req[r].user.exists /\ ~req[r].user.disabled

\* The response every rejected RequireAuth / RequireAdmin request gets.
UnauthorizedFor(json) == IF json THEN JSON401 ELSE RedirectSignout

\* C1: a request whose looked-up User is disabled is never forwarded to the
\* next handler, although its cookie verified and carried an email claim:
\* the closure's error is ErrUserDisabled, the request goes straight to the
\* unauthorized response, and no revocation check or save is made for it.
C1_DisabledNeverForwarded ==
  \A r \in Reqs :
    LookedUpDisabled(r) =>
      /\ req[r].cookie = "good" /\ req[r].claim \in Emails
      /\ req[r].pc \in {"respond", "done"}
      /\ req[r].err = ErrUserDisabled
      /\ ~req[r].forwarded
      /\ ~req[r].ctxUser.exists
      /\ req[r].calls = 0 /\ ~req[r].saveTried
      /\ req[r].pc = "done" => req[r].resp = UnauthorizedFor(req[r].json)

C1_Witness ==
  \E r \in Reqs :
    /\ req[r].pc = "done"
    /\ LookedUpDisabled(r)
    /\ req[r].cookie = "good"
    /\ req[r].claim = req[r].user.email

\* C2: for a request by an existing, enabled User: if now - lastRevokeCheck
\* < ttl at the TTL test, no revocation check is made; if now >
\* lastRevokeCheck + ttl, exactly one is made by the time the request ends
\* (and never more than one); the request's lastRevokeCheck differs from the
\* value read, and a save is attempted, only after that call succeeded.
C2_RevokeCheckPerTTL ==
  \A r \in Reqs :
    LookedUpEnabled(r) =>
      /\ req[r].calls <= 1
      /\ (req[r].nowAtCheck >= 0
            /\ req[r].nowAtCheck - req[r].lrcRead < TTL) => req[r].calls = 0
      /\ (req[r].pc = "done" /\ req[r].nowAtCheck > req[r].lrcRead + TTL)
           => req[r].calls = 1
      /\ req[r].user.lrc # req[r].lrcRead
           => req[r].calls = 1 /\ req[r].revokeOK
      /\ req[r].saveTried => req[r].calls = 1 /\ req[r].revokeOK

C2_Witness ==
  \E r1 \in Reqs, r2 \in Reqs :
    /\ req[r1].pc = "done" /\ LookedUpEnabled(r1)
    /\ req[r1].nowAtCheck >= 0
    /\ req[r1].nowAtCheck - req[r1].lrcRead < TTL
    /\ req[r1].calls = 0 /\ req[r1].forwarded
    /\ req[r2].pc = "done" /\ LookedUpEnabled(r2)
    /\ req[r2].nowAtCheck > req[r2].lrcRead + TTL
    /\ req[r2].calls = 1 /\ req[r2].saveOK
    /\ req[r2].user.lrc # req[r2].lrcRead

\* C3: in every step of every interleaving, no stored lastRevokeCheck
\* decreases, and one changes only in the save step of a request for that
\* User whose revocation check was made and succeeded.
C3_LrcForwardOnlyAfterCheck ==
  [][\A e \in Emails :
       /\ users'[e].lrc >= users[e].lrc
       /\ users'[e].lrc # users[e].lrc =>
            \E r \in Reqs :
              /\ req[r].pc = "save" /\ req'[r].pc = "respond"
              /\ req[r].claim = e
              /\ req[r].calls = 1 /\ req[r].revokeOK
              /\ users'[e].lrc = req[r].user.lrc]_vars

\* Two requests raced: one stamped an earlier time than the other has
\* stored since, and its own save was refused.
C3_Witness ==
  \E r \in Reqs :
    /\ req[r].saveTried /\ ~req[r].saveOK
    /\ req[r].user.lrc < users[req[r].claim].lrc
    /\ users[req[r].claim].ver # req[r].user.ver

\* Every step of the resolver succeeded for the request.
AllStepsSucceeded(r) ==
  /\ req[r].cookie = "good"
  /\ req[r].claim \in Emails
  /\ LookedUpEnabled(r)
  /\ req[r].nowAtCheck >= 0
  /\ req[r].nowAtCheck > req[r].lrcRead + TTL =>
       /\ req[r].calls = 1 /\ req[r].revokeOK
       /\ req[r].saveTried /\ req[r].saveOK

\* C4: the next handler is invoked if and only if every resolver step
\* succeeded; a rejected request gets JSON 401 if it is a JSON request and
\* a redirect to /signout otherwise; the User on a forwarded request's
\* context is the one looked up by the email claim.
C4_ForwardIffResolved ==
  \A r \in Reqs :
    /\ req[r].pc # "done" => ~req[r].forwarded /\ req[r].resp = NoResp
    /\ req[r].pc = "done" =>
         /\ req[r].forwarded <=> AllStepsSucceeded(r)
         /\ ~req[r].forwarded =>
              /\ req[r].resp = UnauthorizedFor(req[r].json)
              /\ ~req[r].ctxUser.exists
         /\ req[r].forwarded =>
              /\ req[r].resp = NextResp
              /\ req[r].ctxUser.exists
              /\ req[r].ctxUser.email = req[r].claim
              /\ req[r].ctxUser = req[r].user

C4_Witness ==
  \E r1 \in Reqs, r2 \in Reqs :
    /\ req[r1].pc = "done" /\ req[r1].forwarded /\ req[r1].saveOK
    /\ req[r1].ctxUser.email = "bob"
    /\ req[r2].pc = "done" /\ ~req[r2].forwarded
    /\ req[r2].err = ErrEmailNotString /\ req[r2].resp = JSON401

\* C5: a request whose revocation check failed, or whose check succeeded
\* but whose save of the advanced lastRevokeCheck failed, is not forwarded
\* and gets the unauthorized response, the same in both cases.
C5_FailClosed ==
  \A r \in Reqs :
    (/\ req[r].pc = "done"
     /\ \/ req[r].calls = 1 /\ ~req[r].revokeOK
        \/ req[r].revokeOK /\ req[r].saveTried /\ ~req[r].saveOK)
    => /\ ~req[r].forwarded
       /\ ~req[r].ctxUser.exists
       /\ req[r].resp = UnauthorizedFor(req[r].json)

C5_Witness ==
  \E r1 \in Reqs, r2 \in Reqs :
    /\ req[r1].pc = "done" /\ req[r1].revokeOK
    /\ req[r1].saveTried /\ ~req[r1].saveOK
    /\ req[r2].pc = "done" /\ req[r2].calls = 1 /\ ~req[r2].revokeOK
    /\ req[r1].json = req[r2].json /\ req[r1].resp = req[r2].resp

(***************************************************************************)
(* Claims about RequireRealmAdmin and RequireAdmin, checked under          *)
(* SpecGuard.  gctx is the context the request arrived with.               *)
(***************************************************************************)
RealmAdminPipes == {"once", "twice"}

\* The arriving context holds a User and a Realm the User may administer.
MayAdminSelectedRealm ==
  /\ gctx.user.exists
  /\ gctx.realm.exists
  /\ gctx.realm.id \in gctx.user.realms

\* C6: RequireRealmAdmin reaches the next handler only when the context
\* holds a User and a Realm and the User can administer that Realm; with
\* the User or the Realm absent it never does, whatever the other is.
C6_RealmAdminOnly ==
  \A p \in RealmAdminPipes :
    /\ g[p].nextCalls > 0 => MayAdminSelectedRealm
    /\ (~gctx.user.exists \/ ~gctx.realm.exists) =>
         /\ g[p].nextCalls = 0
         /\ g[p].pos = 1
         /\ g[p].done => g[p].resp.kind = "redirect"
    /\ (g[p].done /\ MayAdminSelectedRealm) => g[p].nextCalls = 1

C6_Witness ==
  /\ g["once"].done /\ g["once"].nextCalls = 1
  /\ MayAdminSelectedRealm
  /\ gctx.user.realms # Realms
  /\ ~gctx.user.admin

\* C7: a request rejected because the present User cannot administer the
\* present Realm is redirected to /realm with the realm message, JSON
\* request or not; the redirect to /signout is given only when the User or
\* the Realm is missing.
C7_NotRealmAdminRedirect ==
  \A p \in RealmAdminPipes :
    g[p].done =>
      /\ (gctx.user.exists /\ gctx.realm.exists /\ ~MayAdminSelectedRealm)
           => /\ g[p].resp = RedirectRealm
              /\ g[p].err = ErrNotRealmAdmin
              /\ g[p].nextCalls = 0
      /\ g[p].resp = RedirectSignout =>
           ~gctx.user.exists \/ ~gctx.realm.exists
      /\ (~gctx.user.exists \/ ~gctx.realm.exists) =>
           g[p].resp = RedirectSignout

C7_Witness ==
  /\ g["once"].done
  /\ gctx.user.exists /\ gctx.user.admin /\ gctx.user.realms = {"r1"}
  /\ gctx.realm = MkRealm("r2")
  /\ gjson
  /\ g["once"].resp = RedirectRealm

\* C8: RequireAdmin reaches the next handler only when the context holds a
\* User whose admin flag is set; otherwise the answer is JSON 401 for a JSON
\* request and a redirect to /signout for any other.  Being able to
\* administer realms does not pass the guard.
C8_SystemAdminOnly ==
  /\ g["admin"].nextCalls > 0 => gctx.user.exists /\ gctx.user.admin
  /\ (g["admin"].done /\ gctx.user.exists /\ gctx.user.admin)
       => g["admin"].nextCalls = 1
  /\ (g["admin"].done /\ ~(gctx.user.exists /\ gctx.user.admin)) =>
       /\ g["admin"].nextCalls = 0
       /\ g["admin"].resp = UnauthorizedFor(gjson)

C8_Witness ==
  /\ g["admin"].done
  /\ gctx.user.exists /\ ~gctx.user.admin /\ gctx.user.realms = Realms
  /\ gctx.realm.exists
  /\ g["admin"].nextCalls = 0
  /\ g["admin"].resp = JSON401

\* C9: for every context, the chain with RequireRealmAdmin twice ends as
\* the chain with it once: same decision, same response, same error, the
\* next handler called at most once, and the context, the User records and
\* the clock as they were.
C9_RealmAdminIdempotent ==
  /\ \A p \in RealmAdminPipes :
       /\ g[p].nextCalls <= 1
       /\ g[p].ctx = gctx
  /\ users = GuardStore
  /\ (g["once"].done /\ g["twice"].done) =>
       /\ g["once"].nextCalls = g["twice"].nextCalls
       /\ g["once"].resp = g["twice"].resp
       /\ g["once"].err = g["twice"].err

C9_Witness ==
  /\ g["once"].done /\ g["twice"].done
  /\ g["twice"].pos = 3
  /\ g["twice"].nextCalls = 1
  /\ g["once"].nextCalls = 1

(***************************************************************************)
(* Claims about concurrent issuance, checked under SpecIssueRace.          *)
(***************************************************************************)
LiveCodes == {rec \in codes : Live(rec, now)}

\* C10: at no time do two live (unexpired, not deleted) code records of
\* the store carry the same code, whatever the interleaving of the
\* requests' generate, persist, send and delete steps.
C10_LiveCodesUnique ==
  \A r1 \in LiveCodes, r2 \in LiveCodes : r1 # r2 => r1.code # r2.code

\* Both requests had drawn the same code with neither persisted yet; one
\* was refused with a conflict, drew again, and both records are live.
C10_Witness ==
  /\ Cardinality(LiveCodes) = 2
  /\ \A i \in IReqs : ireq[i].persisted
  /\ \E i \in IReqs : ireq[i].conflicts = 1 /\ ireq[i].attempts = 2

(***************************************************************************)
(* Claims about one issuance request, checked under SpecIssue.             *)
(***************************************************************************)
\* The code records in the store that request i persisted.
OwnRecords(i) == {rec \in codes : rec.id = i}

\* The request has passed validation and come back from Issue, which
\* failed with every one of its inserts refused as a conflict.
Exhausted(r) ==
  /\ r.pc = "done" /\ r.stage = "ok"
  /\ ~r.persisted
  /\ r.attempts = r.conflicts

\* The 500 of a failed Issue.
IssueFailedResp ==
  ErrorResp(500, "error generating verification, wait a moment and try again")

\* C11: when the store refuses the first N inserts of a request with a
\* conflict and N is within the retry budget, N + 1 codes are generated
\* and the code is persisted; when the conflicts use the budget up, no
\* further code is generated, the store holds no record of the request, and
\* what the caller receives is the 500 "try again".
C11_RetryWithinBudget ==
  LET r == ireq["i1"] IN
  /\ r.attempts <= RetryCount + 1
  /\ r.pc = "generate" => r.attempts = r.conflicts /\ r.conflicts <= RetryCount
  /\ r.persisted => r.attempts = r.conflicts + 1 /\ r.conflicts <= RetryCount
  /\ Exhausted(r) =>
       /\ r.conflicts = RetryCount + 1
       /\ OwnRecords("i1") = {}
       /\ r.resps = <<IssueFailedResp>>

\* The request's code was persisted, the send failed, and the error branch
\* has run to its end.
DispatchFailed(r) ==
  /\ r.pc = "done"
  /\ r.persisted
  /\ r.sendTried /\ ~r.sendOK

\* C12 as stated: whenever the code was persisted and the send then failed,
\* the store holds no record of the request once it has completed, and the
\* caller has received a 500.
C12_RolledBackAlways ==
  LET r == ireq["i1"] IN
  DispatchFailed(r) =>
    /\ OwnRecords("i1") = {}
    /\ r.resps = <<ErrorResp(500, "failed to send sms")>>

\* C12: whenever the code was persisted and the send then failed, the
\* caller has received a 500 once the request has completed, and the store
\* holds no record of the request unless the delete itself failed.
C12_RolledBackUnlessDeleteFails ==
  LET r == ireq["i1"] IN
  DispatchFailed(r) =>
    /\ r.deleteTried
    /\ r.resps = <<ErrorResp(500, "failed to send sms")>>
    /\ r.deleteOK => /\ OwnRecords("i1") = {}
                     /\ \A rec \in codes : rec.code # r.issued

\* A send failed after a persist, the delete went through, and the record
\* is gone.
C12_Witness ==
  LET r == ireq["i1"] IN
  /\ DispatchFailed(r)
  /\ r.deleteOK
  /\ OwnRecords("i1") = {}
  /\ r.issued # ""

\* The request carries a phone number and its realm has no SMS provider.
NoChannel(r) ==
  /\ r.pc # "idle"
  /\ r.stage \notin {"bind", "auth", "realm"}
  /\ r.in.phone # "" /\ r.in.sms = "none"

\* C13: a request with a phone number whose realm has no SMS provider is
\* answered with the 422 "no SMS provider is configured" and stops there:
\* no code is generated and no record is persisted.
C13_NoChannelStops ==
  LET r == ireq["i1"] IN
  NoChannel(r) =>
    /\ r.pc = "done"
    /\ r.resps = <<ErrorResp(422,
                     "phone provided, but no SMS provider is configured")>>
    /\ r.attempts = 0
    /\ ~r.persisted
    /\ OwnRecords("i1") = {}

\* The request was bound and its context carries neither an AuthorizedApp
\* nor a User.
NoPrincipal(r) ==
  /\ r.pc # "idle"
  /\ ~r.in.bindErr
  /\ r.in.ctxApp = None /\ r.in.ctxUser = None

\* C14: a request whose context carries neither an AuthorizedApp nor a
\* User is answered with a 401 and no code is generated or persisted.
C14_NoPrincipalUnauthorized ==
  LET r == ireq["i1"] IN
  NoPrincipal(r) =>
    /\ r.pc = "done"
    /\ Len(r.resps) = 1
    /\ r.resps[1].kind = "error" /\ r.resps[1].status = 401
    /\ r.attempts = 0
    /\ ~r.persisted
    /\ OwnRecords("i1") = {}

\* The status the class of a failure calls for: 422 for what is wrong with
\* the request, 401 for who sends it, 500 for what failed inside.
StatusOfClass(msg) ==
  CASE msg = "invalid request" -> 422
    [] msg = "invalid request: unable to identify authorized requestor" -> 401
    [] msg = "Unauthorized" -> 401
    [] msg = "no realm selected" -> 422
    [] msg = "failed to get sms provider" -> 500
    [] msg = "phone provided, but no SMS provider is configured" -> 422
    [] msg = "invalid test type" -> 422
    [] msg = "invalid symptom onset date" -> 422
    [] msg = "Invalid symptom onset date" -> 422
    [] msg = "error generating verification, wait a moment and try again"
         -> 500
    [] msg = "failed to send sms" -> 500
    [] OTHER -> 0

\* C15: every error response carries the status of its class, 422 for a
\* validation failure (an unparsable body among them), 401 for an
\* authorization failure, 500 for an internal one, and none carries a
\* success status.
C15_ErrorStatusByClass ==
  LET r == ireq["i1"] IN
  \A k \in 1..Len(r.resps) :
    r.resps[k].kind = "error" =>
      /\ r.resps[k].status = StatusOfClass(r.resps[k].msg)
      /\ r.resps[k].status \notin 200..299

\* The request supplied a calendar date and the handler has checked it.
DateChecked(r) ==
  /\ r.pc # "idle"
  /\ r.stage \in {"date", "ok"}
  /\ r.in.symptomDate.kind = "date"

\* C16: with maxDate today and minDate = maxDate - AllowedSymptomAge
\* truncated to a day, at every time and for every supplied date d: d on
\* minDate's or maxDate's date is accepted, and d one day before minDate's
\* or one day after maxDate's is refused with a 422 that echoes both.
C16_DateWindowBoundaries ==
  LET r == ireq["i1"]
      d == r.in.symptomDate.day
      maxDay == FormatDate(r.at, tz)
      minDay == FormatDate(
                  TruncateDay(r.at - AllowedSymptomAgeDays * DayLen), tz)
  IN
  DateChecked(r) =>
    /\ d \in {minDay, maxDay} => r.stage = "ok"
    /\ d \in {minDay - 1, maxDay + 1} =>
         /\ r.stage = "date"
         /\ r.resps[Len(r.resps)] =
              DateErrorResp(422, "Invalid symptom onset date", minDay, maxDay)

\* C17: every code record a request creates has exactly one of issuingUser
\* and issuingApp set, whatever the context carries (an app, a user, both,
\* neither); the issuer is the app whenever one is attached, with the
\* app's own realm as realmID, and else the user with the realm selected
\* in the context; with neither there is no record.
C17_ExactlyOneIssuer ==
  LET r == ireq["i1"] IN
  /\ (r.pc # "idle" /\ r.in.ctxApp = None /\ r.in.ctxUser = None) =>
       /\ OwnRecords("i1") = {}
       /\ ~r.persisted
  /\ \A rec \in OwnRecords("i1") :
       /\ (rec.issuingUser = None) # (rec.issuingApp = None)
       /\ r.in.ctxApp # None =>
            /\ rec.issuingApp = r.in.ctxApp
            /\ rec.realmID = AppRealmID
       /\ r.in.ctxApp = None =>
            /\ rec.issuingUser = r.in.ctxUser
            /\ rec.realmID = r.in.ctxRealm

\* A record created for a context that carries both an app and a user.
C17_Witness ==
  LET r == ireq["i1"] IN
  /\ r.in.ctxApp # None /\ r.in.ctxUser # None
  /\ \E rec \in OwnRecords("i1") :
       rec.issuingApp # None /\ rec.issuingUser = None

\* The send failed and the delete that was to undo the persist failed too.
DispatchAndDeleteFailed(r) ==
  /\ DispatchFailed(r)
  /\ r.deleteTried /\ ~r.deleteOK

\* C19: when the send fails and the compensating delete fails as well, the
\* caller receives the 500 of the failed send: the delete's failure takes
\* neither its place nor turns the answer into a success.
C19_DeleteFailureDoesNotMask ==
  LET r == ireq["i1"] IN
  DispatchAndDeleteFailed(r) =>
    /\ r.resps = <<ErrorResp(500, "failed to send sms")>>
    /\ \A k \in 1..Len(r.resps) : r.resps[k].kind # "code"

\* Both the send and the delete failed; the record is still in the store.
C19_Witness ==
  /\ DispatchAndDeleteFailed(ireq["i1"])
  /\ OwnRecords("i1") # {}

\* C20: a success response is written only in a request all of whose
\* validation steps passed, whose code was persisted and not rolled back,
\* and, if it named a recipient, whose send was tried after the persist
\* and succeeded; no send comes before the persist, and a request sends at
\* most once.
C20_SuccessOnlyAfterAll ==
  LET r == ireq["i1"] IN
  /\ r.sends <= 1
  /\ r.sendTried => r.persisted
  /\ \A k \in 1..Len(r.resps) :
       r.resps[k].kind = "code" =>
         /\ r.stage = "ok"
         /\ \A j \in 1..Len(r.resps) : r.resps[j].kind # "error"
         /\ r.persisted /\ ~r.deleteTried
         /\ r.in.phone # "" => r.sendTried /\ r.sendOK

(***************************************************************************)
(* Termination of a request, checked under SpecIssueFair.                  *)
(***************************************************************************)
\* The state of the issuance state machine a request is in.
IssueState(r) ==
  CASE r.pc = "idle" -> "Validating"
    [] r.pc = "generate" -> "Generating"
    [] r.pc = "persist" -> "Persisting"
    [] r.pc = "send" -> "Dispatching"
    [] r.pc = "delete" -> "RolledBack"
    [] r.pc = "done" ->
         IF r.resps[Len(r.resps)].kind = "code" THEN "Issued" ELSE "Failed"

\* Validating -> Generating -> Persisting -> (conflict -> Generating) ->
\* Dispatching -> Issued, and Dispatching(fail) -> RolledBack -> Failed.
ListedTransitions ==
  {<<"Validating", "Generating">>, <<"Generating", "Persisting">>,
   <<"Persisting", "Generating">>, <<"Persisting", "Dispatching">>,
   <<"Dispatching", "Issued">>, <<"Dispatching", "RolledBack">>,
   <<"RolledBack", "Failed">>}

\* The transitions of a request that is refused in validation, whose Issue
\* fails, or that has no recipient to send to.
FurtherTransitions ==
  {<<"Validating", "Failed">>, <<"Persisting", "Failed">>,
   <<"Persisting", "Issued">>}

\* Every step of the request is one of the given transitions.
StepsWithin(transitions) ==
  ireq'["i1"] # ireq["i1"] =>
    <<IssueState(ireq["i1"]), IssueState(ireq'["i1"])>> \in transitions

\* The request ends, stays as it ended, and generates a code at most
\* RetryCount + 1 times.
EndsAndStays ==
  /\ <>(ireq["i1"].pc = "done")
  /\ [][ireq["i1"].pc = "done" => ireq' = ireq /\ codes' = codes]_vars
  /\ [](ireq["i1"].attempts <= RetryCount + 1)

\* C18 as stated: whatever the store and the SMS provider do, a request
\* ends as Issued or Failed and takes no step after that, its retry loop
\* makes at most RetryCount + 1 attempts, and its steps are only those of
\* the state machine as listed.
C18_OnlyListedTransitions ==
  /\ EndsAndStays
  /\ [][StepsWithin(ListedTransitions)]_vars

\* C18: whatever the store and the SMS provider do, a request ends as
\* Issued or Failed and takes no step after that, its retry loop makes at
\* most RetryCount + 1 attempts, and its steps are those of the state
\* machine as listed or one of Validating -> Failed, Persisting -> Failed
\* and Persisting -> Issued.
C18_TerminatesWithinTransitions ==
  /\ EndsAndStays
  /\ [][StepsWithin(ListedTransitions \cup FurtherTransitions)]_vars

\* A request that was refused a code once, persisted the second, failed to
\* send it and ended after the rollback.
C18_Witness ==
  LET r == ireq["i1"] IN
  /\ r.pc = "done"
  /\ r.conflicts = 1 /\ r.attempts = 2
  /\ r.deleteTried
  /\ IssueState(r) = "Failed"

(***************************************************************************)
(* Claims about the responses and the frame of a request, checked under    *)
(* SpecIssue.                                                              *)
(***************************************************************************)
\* An error response is among the responses the request has written.
WroteError(r) == \E k \in 1..Len(r.resps) : r.resps[k].kind = "error"

\* C21: every request writes exactly one response, and once it has written
\* an error response it takes no further step: no later validation,
\* generation, persist, send or second response.
C21_ExactlyOneResponse ==
  LET r == ireq["i1"] IN
  /\ Len(r.resps) <= 1
  /\ r.pc = "done" => Len(r.resps) = 1
  /\ WroteError(r) => r.pc = "done"

\* The handler has come to the test type check with a test type that,
\* lower-cased, is none of confirmed, likely, negative.
UnknownTestType(r) ==
  /\ r.pc # "idle"
  /\ r.stage \notin {"bind", "auth", "realm", "sms"}
  /\ ToLower(r.in.testType) \notin ValidTestTypes

\* The handler has come to the symptom date check with a date that does not
\* parse or that lies outside the window of the time of the check.
BadSymptomDate(r) ==
  /\ r.pc # "idle"
  /\ r.stage \in {"date", "ok"}
  /\ r.in.symptomDate.kind # "empty"
  /\ ~CheckSymptomDate(r.in.symptomDate, r.at, tz).ok

\* The request has ended without a code generated, a record persisted, a
\* send or a delete.
EndedUntouched(r) ==
  /\ r.pc = "done"
  /\ r.attempts = 0 /\ ~r.persisted
  /\ r.sends = 0 /\ ~r.sendTried /\ ~r.deleteTried
  /\ OwnRecords("i1") = {}

\* C22: a request refused for a test type that is, lower-cased, none of
\* confirmed, likely, negative, or for a symptom date that does not parse
\* or lies outside the window, leaves the code store as it was and sends
\* nothing: it ends in validation, before any code is generated or
\* persisted; a test type that differs from a valid one only in case is
\* not refused.
C22_RejectedLeavesStore ==
  /\ [](LET r == ireq["i1"] IN
        /\ UnknownTestType(r) => r.stage = "testtype" /\ EndedUntouched(r)
        /\ BadSymptomDate(r) => r.stage = "date" /\ EndedUntouched(r)
        /\ r.stage = "testtype" => UnknownTestType(r)
        /\ r.stage = "date" => BadSymptomDate(r))
  /\ [][(UnknownTestType(ireq'["i1"]) \/ BadSymptomDate(ireq'["i1"]))
          => codes' = codes]_vars

\* A request refused for its test type, with records in the store.
C22_Witness ==
  LET r == ireq["i1"] IN
  /\ r.pc = "done"
  /\ r.stage = "testtype"
  /\ r.in.testType = "Bogus"
  /\ codes # {}

====
